---- MODULE Spec2Model ----
(***************************************************************************)
(* Model of rct, a transaction processor: a feeder sends ledger entries    *)
(* into an unbounded channel, the load balancer routes each entry to the   *)
(* worker with index client id mod N, each worker applies the entries to   *)
(* the accounts it owns, and the load balancer merges the workers' maps    *)
(* when the stream ends.                                                   *)
(*                                                                         *)
(* Decimal values are modelled as integers.  rust_decimal's checked_add    *)
(* and checked_sub return None when the result leaves the representable    *)
(* range; the range is scaled down to -DecimalMax..DecimalMax.             *)
(***************************************************************************)
EXTENDS Integers, Sequences, FiniteSets, TLC

\* ------------------------------------------------------------------ bounds

\* Largest pool size tried for num_cpus::get().
MaxWorkers == 2
\* Client ids are 0..MaxClient.
MaxClient == 1
\* Transaction ids are 1..MaxTx.
MaxTx == 2
\* Amounts of the input are -1..MaxAmount (and a missing amount).
MaxAmount == 1
\* Scaled-down stand-in for Decimal::MAX.
DecimalMax == 2
\* Number of entries the feeder sends in the pipeline specification.
MaxSend == 3

ClientIds == 0..MaxClient
TxIds == 1..MaxTx
Amounts == (-1)..MaxAmount

\* ---------------------------------------------------------------- Option

\* Option<T>: None is the empty sequence, Some(x) the one-element sequence.
None == <<>>
Some(x) == <<x>>
IsSome(o) == o # <<>>
Unwrap(o) == o[1]

\* --------------------------------------------------------------- Decimal

\* Decimal::checked_add: None on overflow of the representation.
checked_add(a, b) ==
    IF a + b > DecimalMax \/ a + b < -DecimalMax THEN None ELSE Some(a + b)

\* Decimal::checked_sub: None on overflow of the representation.
checked_sub(a, b) ==
    IF a - b > DecimalMax \/ a - b < -DecimalMax THEN None ELSE Some(a - b)

is_sign_negative(a) == a < 0

\* ---------------------------------------------------------------- Client

\* Client::new
ClientNew(id) == [id |-> id, available |-> 0, held |-> 0, locked |-> FALSE]

\* Result<()> of a Client operation, with the client as the call leaves it.
Ok(c) == [ok |-> TRUE, client |-> c]
Err(c) == [ok |-> FALSE, client |-> c]

\* Client::add_available
add_available(c, amount) ==
    IF is_sign_negative(amount) THEN Err(c)
    ELSE LET new_amount == checked_add(c.available, amount)
         IN  IF ~IsSome(new_amount) THEN Err(c)
             ELSE Ok([c EXCEPT !.available = Unwrap(new_amount)])

\* subtract_available without the check of the new amount's sign.
subtract_available_no_sign_check(c, amount) ==
    IF is_sign_negative(amount) THEN Err(c)
    ELSE LET new_amount == checked_sub(c.available, amount)
         IN  IF ~IsSome(new_amount) THEN Err(c)
             ELSE Ok([c EXCEPT !.available = Unwrap(new_amount)])

\* subtract_available that pays out what is left when the funds fall short.
subtract_available_saturating(c, amount) ==
    IF is_sign_negative(amount) THEN Err(c)
    ELSE LET new_amount == checked_sub(c.available, amount)
         IN  IF ~IsSome(new_amount) THEN Err(c)
             ELSE IF is_sign_negative(Unwrap(new_amount))
                  THEN Ok([c EXCEPT !.available = 0])
             ELSE Ok([c EXCEPT !.available = Unwrap(new_amount)])

\* Client::subtract_available
subtract_available(c, amount) ==
    IF is_sign_negative(amount) THEN Err(c)
    ELSE LET new_amount == checked_sub(c.available, amount)
         IN  IF ~IsSome(new_amount) THEN Err(c)
             ELSE IF is_sign_negative(Unwrap(new_amount)) THEN Err(c)
             ELSE Ok([c EXCEPT !.available = Unwrap(new_amount)])

\* transfer_available_to_held that commits the new available only.
transfer_available_to_held_keeps_held(c, amount) ==
    IF is_sign_negative(amount) THEN Err(c)
    ELSE LET new_available == checked_sub(c.available, amount)
         IN  IF ~IsSome(new_available) THEN Err(c)
             ELSE IF is_sign_negative(Unwrap(new_available)) THEN Err(c)
             ELSE LET new_held == checked_add(c.held, amount)
                  IN  IF ~IsSome(new_held) THEN Err(c)
                      ELSE Ok([c EXCEPT !.available = Unwrap(new_available)])

\* Client::transfer_available_to_held
transfer_available_to_held(c, amount) ==
    IF is_sign_negative(amount) THEN Err(c)
    ELSE LET new_available == checked_sub(c.available, amount)
         IN  IF ~IsSome(new_available) THEN Err(c)
             ELSE IF is_sign_negative(Unwrap(new_available)) THEN Err(c)
             ELSE LET new_held == checked_add(c.held, amount)
                  IN  IF ~IsSome(new_held) THEN Err(c)
                      ELSE Ok([c EXCEPT !.available = Unwrap(new_available),
                                        !.held = Unwrap(new_held)])

\* transfer_held_to_available that commits the new available only.
transfer_held_to_available_keeps_held(c, amount) ==
    IF is_sign_negative(amount) THEN Err(c)
    ELSE LET new_available == checked_add(c.available, amount)
         IN  IF ~IsSome(new_available) THEN Err(c)
             ELSE LET new_held == checked_sub(c.held, amount)
                  IN  IF ~IsSome(new_held) THEN Err(c)
                      ELSE IF is_sign_negative(Unwrap(new_held)) THEN Err(c)
                      ELSE Ok([c EXCEPT !.available = Unwrap(new_available)])

\* transfer_held_to_available that stores the new available before it looks at
\* held.
transfer_held_to_available_eager(c, amount) ==
    IF is_sign_negative(amount) THEN Err(c)
    ELSE LET new_available == checked_add(c.available, amount)
         IN  IF ~IsSome(new_available) THEN Err(c)
             ELSE LET stored == [c EXCEPT !.available = Unwrap(new_available)]
                      new_held == checked_sub(c.held, amount)
                  IN  IF ~IsSome(new_held) THEN Err(stored)
                      ELSE IF is_sign_negative(Unwrap(new_held)) THEN Err(stored)
                      ELSE Ok([stored EXCEPT !.held = Unwrap(new_held)])

\* transfer_held_to_available that wants held to stay above zero.
transfer_held_to_available_strict(c, amount) ==
    IF is_sign_negative(amount) THEN Err(c)
    ELSE LET new_available == checked_add(c.available, amount)
         IN  IF ~IsSome(new_available) THEN Err(c)
             ELSE LET new_held == checked_sub(c.held, amount)
                  IN  IF ~IsSome(new_held) THEN Err(c)
                      ELSE IF Unwrap(new_held) <= 0 THEN Err(c)
                      ELSE Ok([c EXCEPT !.available = Unwrap(new_available),
                                        !.held = Unwrap(new_held)])

\* Client::transfer_held_to_available
transfer_held_to_available(c, amount) ==
    IF is_sign_negative(amount) THEN Err(c)
    ELSE LET new_available == checked_add(c.available, amount)
         IN  IF ~IsSome(new_available) THEN Err(c)
             ELSE LET new_held == checked_sub(c.held, amount)
                  IN  IF ~IsSome(new_held) THEN Err(c)
                      ELSE IF is_sign_negative(Unwrap(new_held)) THEN Err(c)
                      ELSE Ok([c EXCEPT !.available = Unwrap(new_available),
                                        !.held = Unwrap(new_held)])

\* Client::subtract_held
subtract_held(c, amount) ==
    IF is_sign_negative(amount) THEN Err(c)
    ELSE LET new_held == checked_sub(c.held, amount)
         IN  IF ~IsSome(new_held) THEN Err(c)
             ELSE IF is_sign_negative(Unwrap(new_held)) THEN Err(c)
             ELSE Ok([c EXCEPT !.held = Unwrap(new_held)])

\* Client::lock_account
lock_account(c) == [c EXCEPT !.locked = TRUE]

\* ----------------------------------------------------------- Transaction

\* str::to_ascii_lowercase on the type strings of the input.
to_ascii_lowercase(s) ==
    CASE s = "Dispute" -> "dispute"
      [] OTHER -> s

\* Transaction::new and the deserialized record.
Transaction(ttype, client, tx, amount) ==
    [ttype |-> ttype, client |-> client, tx |-> tx, amount |-> amount]

\* Transaction::get_type: None for an unrecognised type string.
get_type(t) ==
    LET type_str == to_ascii_lowercase(t.ttype)
    IN  IF type_str \in {"deposit", "withdrawal", "dispute", "resolve", "chargeback"}
        THEN Some(type_str)
        ELSE None

\* ---------------------------------------------------------------- worker

\* One worker's state: its clients map and its transactions map.
WorkerNew == [clients |-> <<>>, transactions |-> <<>>]

\* clients.entry(id).or_insert_with(|| Client::new(id))
or_insert_with(cl, id) ==
    IF id \in DOMAIN cl THEN cl ELSE (id :> ClientNew(id)) @@ cl

\* HashMap::insert: the new value replaces any value stored under the key.
insert(m, k, v) == (k :> v) @@ m

\* HashMap::get
get(m, k) == IF k \in DOMAIN m THEN Some(m[k]) ELSE None

\* The result of one iteration of the worker loop: the two maps, and whether
\* a Client operation was called and returned Ok.
Step(cl, tr, ok) == [clients |-> cl, transactions |-> tr, ok |-> ok]

\* A Deposit arm that records the entry whatever add_available returned.
Deposit_records_rejected(cl, tr, t) ==
    IF ~IsSome(t.amount) THEN Step(cl, tr, FALSE)
    ELSE LET r == add_available(cl[t.client], Unwrap(t.amount))
         IN  IF r.ok
             THEN Step([cl EXCEPT ![t.client] = r.client], insert(tr, t.tx, t), TRUE)
             ELSE Step(cl, insert(tr, t.tx, t), FALSE)

\* Deposit arm.
Deposit(cl, tr, t) ==
    IF ~IsSome(t.amount) THEN Step(cl, tr, FALSE)
    ELSE LET r == add_available(cl[t.client], Unwrap(t.amount))
         IN  IF r.ok
             THEN Step([cl EXCEPT ![t.client] = r.client], insert(tr, t.tx, t), TRUE)
             ELSE Step(cl, tr, FALSE)

\* Withdrawal arm.
Withdrawal(cl, tr, t) ==
    IF ~IsSome(t.amount) THEN Step(cl, tr, FALSE)
    ELSE LET r == subtract_available(cl[t.client], Unwrap(t.amount))
         IN  IF r.ok
             THEN Step([cl EXCEPT ![t.client] = r.client], insert(tr, t.tx, t), TRUE)
             ELSE Step(cl, tr, FALSE)

\* The lookup without the comparison of the client ids.
Referenced_any_client(cl, tr, t) ==
    LET ref_transaction == get(tr, t.tx)
    IN  IF ~IsSome(ref_transaction) THEN None
        ELSE Unwrap(ref_transaction).amount

\* The lookup shared by the Dispute, Resolve and Chargeback arms: the amount
\* of the referenced transaction when it is found, belongs to the client and
\* carries an amount.
Referenced(cl, tr, t) ==
    LET ref_transaction == get(tr, t.tx)
    IN  IF ~IsSome(ref_transaction) THEN None
        ELSE IF Unwrap(ref_transaction).client # cl[t.client].id THEN None
        ELSE Unwrap(ref_transaction).amount

\* Dispute arm.
Dispute(cl, tr, t) ==
    LET amount == Referenced(cl, tr, t)
    IN  IF ~IsSome(amount) THEN Step(cl, tr, FALSE)
        ELSE LET r == transfer_available_to_held(cl[t.client], Unwrap(amount))
             IN  Step([cl EXCEPT ![t.client] = r.client], tr, r.ok)

\* Resolve arm.
Resolve(cl, tr, t) ==
    LET amount == Referenced(cl, tr, t)
    IN  IF ~IsSome(amount) THEN Step(cl, tr, FALSE)
        ELSE LET r == transfer_held_to_available(cl[t.client], Unwrap(amount))
             IN  Step([cl EXCEPT ![t.client] = r.client], tr, r.ok)

\* Chargeback arm: subtract_held's result is discarded, lock_account follows.
Chargeback(cl, tr, t) ==
    LET amount == Referenced(cl, tr, t)
    IN  IF ~IsSome(amount) THEN Step(cl, tr, FALSE)
        ELSE LET r == subtract_held(cl[t.client], Unwrap(amount))
             IN  Step([cl EXCEPT ![t.client] = lock_account(r.client)], tr, r.ok)

\* The worker loop body without the test of the account's lock.
Process_ignores_lock(cl0, tr, t) ==
    LET cl == or_insert_with(cl0, t.client)
        transaction_type == get_type(t)
    IN  IF ~IsSome(transaction_type) THEN Step(cl, tr, FALSE)
        ELSE CASE Unwrap(transaction_type) = "deposit" -> Deposit(cl, tr, t)
               [] Unwrap(transaction_type) = "withdrawal" -> Withdrawal(cl, tr, t)
               [] Unwrap(transaction_type) = "dispute" -> Dispute(cl, tr, t)
               [] Unwrap(transaction_type) = "resolve" -> Resolve(cl, tr, t)
               [] Unwrap(transaction_type) = "chargeback" -> Chargeback(cl, tr, t)

\* A worker loop that looks the account up and creates it only for an entry it
\* accepts.
Process_creates_on_accept(cl0, tr, t) ==
    LET r == Process_ignores_lock(cl0, tr, t)
    IN  IF t.client \in DOMAIN cl0 /\ cl0[t.client].locked THEN Step(cl0, tr, FALSE)
        ELSE IF r.ok THEN r
        ELSE Step(cl0, tr, FALSE)

\* The body of the worker loop for one received transaction.
Process(cl0, tr, t) ==
    LET cl == or_insert_with(cl0, t.client)
        transaction_type == get_type(t)
    IN  IF cl[t.client].locked THEN Step(cl, tr, FALSE)
        ELSE IF ~IsSome(transaction_type) THEN Step(cl, tr, FALSE)
        ELSE CASE Unwrap(transaction_type) = "deposit" -> Deposit(cl, tr, t)
               [] Unwrap(transaction_type) = "withdrawal" -> Withdrawal(cl, tr, t)
               [] Unwrap(transaction_type) = "dispute" -> Dispute(cl, tr, t)
               [] Unwrap(transaction_type) = "resolve" -> Resolve(cl, tr, t)
               [] Unwrap(transaction_type) = "chargeback" -> Chargeback(cl, tr, t)

\* ----------------------------------------------------------------- state

VARIABLES
    N,              \* num_cpus::get(): the size of the worker pool
    client_tx,      \* TRUE while the feeder holds the upstream sender
    upstream,       \* the upstream channel: entries sent and not yet received
    lb,             \* the load balancer: "routing", "joining", "awaiting", "done", "failed"
    senders,        \* the workers whose channel sender the load balancer still holds
    queue,          \* queue[w]: worker w's channel
    join_idx,       \* the index of the next join handle of worker_join_handlers
    worker,         \* worker[w]: worker w's clients and transactions maps
    finished,       \* the workers whose task has ended and dropped its receiver
    panicked,       \* the workers whose task ended abnormally: their join handle fails
    results,        \* the load balancer's results map
    returned,       \* TRUE once get_results has returned
    sent,           \* history: every entry the feeder sent, in order
    applied,        \* history: applied[w] is every entry worker w processed, in order
    credited,       \* history: per client, accepted deposits minus accepted withdrawals
    forfeited,      \* history: per client, the amounts removed by successful subtract_held
    dropped,        \* history: the clients that had an entry dropped because locked
    dispute_state,  \* history: per worker and recorded tx id, the dispute life cycle
    solo            \* history: per client, a worker state fed that client's entries only

pipeline_vars ==
    <<N, client_tx, upstream, lb, senders, queue, join_idx, finished, panicked,
      results, returned, sent, applied>>
worker_vars == <<worker, credited, forfeited, dropped>>
vars == <<pipeline_vars, worker_vars, dispute_state, solo>>

Workers == 0..(N - 1)

\* ----------------------------------------------------------------- input

\* The type strings of the input: the five kinds, one in another case, and
\* one that is no kind.
Types ==
    {"deposit", "withdrawal", "dispute", "resolve", "chargeback", "Dispute", "transfer"}

\* The entries a worker may receive.  Deposits and withdrawals come with any
\* amount or none; the amount of the other kinds is never read.
Entries ==
    {Transaction(ty, c, tx, Some(a)) :
        ty \in {"deposit", "withdrawal"}, c \in ClientIds, tx \in TxIds, a \in Amounts}
    \cup
    {Transaction(ty, c, tx, None) : ty \in Types, c \in ClientIds, tx \in TxIds}

\* The entries of one client, over every tx id.
OneClientEntries == {t \in Entries : t.client = 0}

\* The entries of every client that name one tx id, deposits and withdrawals
\* with the largest amount, zero, a negative amount or none.
SharedTxEntries ==
    {t \in Entries :
        /\ t.tx = MaxTx
        /\ IsSome(t.amount) => Unwrap(t.amount) \in {-1, 0, MaxAmount}}

\* The entries the feeder sends in the pipeline specification: a deposit of
\* any client and a dispute of client 0, all naming one tx id.
StreamEntries ==
    {t \in Entries :
        /\ t.tx = MaxTx
        /\ \/ t.ttype = "deposit" /\ t.amount = Some(MaxAmount)
           \/ t.ttype = "dispute" /\ t.client = 0}

\* ------------------------------------------------------------------ Init

Init ==
    /\ N \in 1..MaxWorkers
    /\ client_tx = TRUE
    /\ upstream = <<>>
    /\ lb = "routing"
    /\ senders = 0..(N - 1)
    /\ queue = [w \in 0..(N - 1) |-> <<>>]
    /\ join_idx = 0
    /\ worker = [w \in 0..(N - 1) |-> WorkerNew]
    /\ finished = {}
    /\ panicked = {}
    /\ results = <<>>
    /\ returned = FALSE
    /\ sent = <<>>
    /\ applied = [w \in 0..(N - 1) |-> <<>>]
    /\ credited = [c \in ClientIds |-> 0]
    /\ forfeited = [c \in ClientIds |-> 0]
    /\ dropped = {}
    /\ dispute_state = [w \in 0..(N - 1) |-> <<>>]
    /\ solo = [c \in ClientIds |-> WorkerNew]

\* ---------------------------------------------------------------- worker

\* The kind of an entry the worker acts on, "" when the account is locked or
\* the type is not recognised.
ActingKind(w, t) ==
    LET cl == or_insert_with(worker[w].clients, t.client)
    IN  IF cl[t.client].locked \/ ~IsSome(get_type(t)) THEN ""
        ELSE Unwrap(get_type(t))

\* The amount of the transaction a Dispute, Resolve or Chargeback refers to.
RefAmount(w, t) ==
    Referenced(or_insert_with(worker[w].clients, t.client), worker[w].transactions, t)

\* The dispute life cycle of the recorded transactions after worker w
\* processed t with result r.
NextDisputeState(w, t, r) ==
    LET kind == ActingKind(w, t)
        old == dispute_state[w]
    IN  IF ~r.ok THEN old
        ELSE CASE kind \in {"deposit", "withdrawal"} -> insert(old, t.tx, "recorded")
               [] kind = "dispute" -> [old EXCEPT ![t.tx] = "disputed"]
               [] kind = "resolve" ->
                    [old EXCEPT ![t.tx] = IF @ = "disputed" THEN "resolved" ELSE @]
               [] kind = "chargeback" ->
                    [old EXCEPT ![t.tx] = IF @ = "disputed" THEN "chargedback" ELSE @]

\* One iteration of worker w's loop on the received transaction t.
WorkerStep(w, t) ==
    LET r == Process(worker[w].clients, worker[w].transactions, t)
        kind == ActingKind(w, t)
    IN  /\ worker' = [worker EXCEPT ![w] =
                        [clients |-> r.clients, transactions |-> r.transactions]]
        /\ credited' =
             IF r.ok /\ kind = "deposit"
             THEN [credited EXCEPT ![t.client] = @ + Unwrap(t.amount)]
             ELSE IF r.ok /\ kind = "withdrawal"
             THEN [credited EXCEPT ![t.client] = @ - Unwrap(t.amount)]
             ELSE credited
        /\ forfeited' =
             IF r.ok /\ kind = "chargeback"
             THEN [forfeited EXCEPT ![t.client] = @ + Unwrap(RefAmount(w, t))]
             ELSE forfeited
        /\ dropped' =
             IF or_insert_with(worker[w].clients, t.client)[t.client].locked
             THEN dropped \cup {t.client}
             ELSE dropped

\* The dispute life cycle recorded along worker w's iteration on t.
DisputeStep(w, t) ==
    LET r == Process(worker[w].clients, worker[w].transactions, t)
    IN  dispute_state' = [dispute_state EXCEPT ![w] = NextDisputeState(w, t, r)]

\* The same entry applied to a worker that receives the entries of t's client
\* only.
SoloStep(t) ==
    LET s == Process(solo[t.client].clients, solo[t.client].transactions, t)
    IN  solo' = [solo EXCEPT ![t.client] =
                    [clients |-> s.clients, transactions |-> s.transactions]]

\* rx.recv() returns Some(transaction): the worker processes it.
WorkerRecv(w) ==
    /\ w \notin finished
    /\ queue[w] # <<>>
    /\ WorkerStep(w, Head(queue[w]))
    /\ DisputeStep(w, Head(queue[w]))
    /\ SoloStep(Head(queue[w]))
    /\ queue' = [queue EXCEPT ![w] = Tail(@)]
    /\ applied' = [applied EXCEPT ![w] = Append(@, Head(queue[w]))]
    /\ UNCHANGED <<panicked, N, client_tx, upstream, lb, senders, join_idx, finished, results,
                   returned, sent>>

\* rx.recv() returns None (channel empty, sender dropped): the worker returns.
WorkerExit(w) ==
    /\ w \notin finished
    /\ queue[w] = <<>>
    /\ w \notin senders
    /\ finished' = finished \cup {w}
    /\ UNCHANGED <<panicked, N, client_tx, upstream, lb, senders, queue, join_idx, results,
                   returned, sent, applied>>
    /\ UNCHANGED <<worker_vars, dispute_state, solo>>

\* The worker loop alone: a pool of one worker, which receives an arbitrary
\* entry of any client under a tx id the clients share.
WorkerInit == Init /\ N = 1

Deliver(t) ==
    /\ WorkerStep(t.client % N, t)
    /\ UNCHANGED <<pipeline_vars, dispute_state, solo>>

WorkerNext == \E t \in SharedTxEntries : Deliver(t)

WorkerSpec == WorkerInit /\ [][WorkerNext]_vars

\* The worker loop alone on the entries of one client, with every tx id and
\* every amount.
AccountNext == \E t \in OneClientEntries : Deliver(t)

AccountSpec == WorkerInit /\ [][AccountNext]_vars

\* The worker loop alone on the entries of one client, with the dispute life
\* cycle of each recorded transaction kept along.
DeliverTracked(t) ==
    /\ WorkerStep(t.client % N, t)
    /\ DisputeStep(t.client % N, t)
    /\ UNCHANGED <<pipeline_vars, solo>>

DisputeNext == \E t \in OneClientEntries : DeliverTracked(t)

DisputeSpec == WorkerInit /\ [][DisputeNext]_vars

\* The worker loop alone on the deposits, disputes, resolves and chargebacks
\* of one client, deposits of the largest amount of the input or of the
\* largest Decimal, with the dispute life cycle kept along.
LifeCycleEntries ==
    {Transaction("deposit", 0, tx, Some(a)) : tx \in TxIds, a \in {MaxAmount, DecimalMax}}
    \cup
    {Transaction(ty, 0, tx, None) : ty \in {"dispute", "resolve", "chargeback"}, tx \in TxIds}

LifeCycleNext == \E t \in LifeCycleEntries : DeliverTracked(t)

LifeCycleSpec == WorkerInit /\ [][LifeCycleNext]_vars

\* ---------------------------------------------------------------- feeder

\* client_tx.send(transaction): the feeder sends one more entry upstream.
FeederSend(t) ==
    /\ client_tx
    /\ Len(sent) < MaxSend
    /\ upstream' = Append(upstream, t)
    /\ sent' = Append(sent, t)
    /\ UNCHANGED <<panicked, N, client_tx, lb, senders, queue, join_idx, finished, results,
                   returned, applied>>
    /\ UNCHANGED <<worker_vars, dispute_state, solo>>

\* The block that owns client_tx ends: the upstream sender is dropped.
FeederDrop ==
    /\ client_tx
    /\ client_tx' = FALSE
    /\ UNCHANGED <<panicked, N, upstream, lb, senders, queue, join_idx, finished, results,
                   returned, sent, applied>>
    /\ UNCHANGED <<worker_vars, dispute_state, solo>>

\* --------------------------------------------------------- load balancer

\* A partition by tx id instead of client id.
worker_index_by_tx(transaction, workers_len) == transaction.tx % workers_len

\* transaction.get_client_id() % workers_len
worker_index(transaction, workers_len) == transaction.client % workers_len

\* A channel that hands out the latest message first.
send_front(channel, message) == <<message>> \o channel

\* UnboundedSender::send: the message joins the end of the channel.
send(channel, message) == Append(channel, message)

\* A join loop that borrows the pairs and so keeps every sender.
keep_sender(held, i) == held

\* The closure of workers.into_iter().map drops the sender of the pair it is
\* given.
drop_sender(held, i) == held \ {i}

\* A merge that keeps the map of the last worker only.
extend_replaces(m0, m) == m

\* HashMap::extend: the pairs of m are inserted, replacing equal keys.
extend(m0, m) == m @@ m0

\* A join loop that takes the map of a failed worker to be empty and goes on.
await_unwrap_or_default(crashed, maps, i) ==
    Some(IF i \in crashed THEN <<>> ELSE maps[i].clients)

\* join_handle.await on the handle of worker i, whose task has ended: the
\* clients the worker returned, or nothing (a JoinError) when the task ended
\* abnormally.
await(crashed, maps, i) ==
    IF i \in crashed THEN None ELSE Some(maps[i].clients)

\* rx.recv() returns Some(transaction): it is sent to the worker of its client,
\* whose receiver is alive.
LbRoute ==
    /\ lb = "routing"
    /\ upstream # <<>>
    /\ worker_index(Head(upstream), N) \notin finished
    /\ LET transaction == Head(upstream)
           i == worker_index(transaction, N)
       IN  queue' = [queue EXCEPT ![i] = send(@, transaction)]
    /\ upstream' = Tail(upstream)
    /\ UNCHANGED <<panicked, N, client_tx, lb, senders, join_idx, finished, results,
                   returned, sent, applied>>
    /\ UNCHANGED <<worker_vars, dispute_state, solo>>

\* rx.recv() returns None: the routing loop ends, the join loop starts.
LbEndOfStream ==
    /\ lb = "routing"
    /\ upstream = <<>>
    /\ ~client_tx
    /\ lb' = "joining"
    /\ UNCHANGED <<panicked, N, client_tx, upstream, senders, queue, join_idx, finished,
                   results, returned, sent, applied>>
    /\ UNCHANGED <<worker_vars, dispute_state, solo>>

\* The join loop takes the next pair of workers.into_iter(): the closure
\* keeps the join handle and drops the sender.
LbNextHandle ==
    /\ lb = "joining"
    /\ join_idx < N
    /\ senders' = drop_sender(senders, join_idx)
    /\ lb' = "awaiting"
    /\ UNCHANGED <<panicked, N, client_tx, upstream, queue, join_idx, finished, results,
                   returned, sent, applied>>
    /\ UNCHANGED <<worker_vars, dispute_state, solo>>

\* join_handle.await completes: the worker's clients extend the results.
LbJoin ==
    /\ lb = "awaiting"
    /\ join_idx \in finished
    /\ IsSome(await(panicked, worker, join_idx))
    /\ results' = extend(results, Unwrap(await(panicked, worker, join_idx)))
    /\ join_idx' = join_idx + 1
    /\ lb' = "joining"
    /\ UNCHANGED <<panicked, N, client_tx, upstream, senders, queue, finished, returned,
                   sent, applied>>
    /\ UNCHANGED <<worker_vars, dispute_state, solo>>

\* The join loop is over: load_balancer returns Ok(results).
LbReturn ==
    /\ lb = "joining"
    /\ join_idx = N
    /\ lb' = "done"
    /\ UNCHANGED <<panicked, N, client_tx, upstream, senders, queue, join_idx, finished,
                   results, returned, sent, applied>>
    /\ UNCHANGED <<worker_vars, dispute_state, solo>>

LoadBalancer == LbRoute \/ LbEndOfStream \/ LbNextHandle \/ LbJoin \/ LbReturn

\* get_results: the await of the load balancer's join handle completes.
GetResults ==
    /\ lb = "done"
    /\ ~returned
    /\ returned' = TRUE
    /\ UNCHANGED <<panicked, N, client_tx, upstream, lb, senders, queue, join_idx, finished,
                   results, sent, applied>>
    /\ UNCHANGED <<worker_vars, dispute_state, solo>>

\* ---------------------------------------------------------------- faults

\* The task of worker w ends abnormally (a panic, or the runtime cancels it):
\* its receiver is dropped with the entries it held, its join handle will
\* yield a JoinError.
WorkerPanic(w) ==
    /\ w \in Workers
    /\ w \notin finished
    /\ finished' = finished \cup {w}
    /\ panicked' = panicked \cup {w}
    /\ queue' = [queue EXCEPT ![w] = <<>>]
    /\ UNCHANGED <<N, client_tx, upstream, lb, senders, join_idx, results,
                   returned, sent, applied>>
    /\ UNCHANGED <<worker_vars, dispute_state, solo>>

\* tx.send(transaction)? on a channel whose receiver is gone: load_balancer
\* returns the error, its locals (every sender) are dropped.
LbSendError ==
    /\ lb = "routing"
    /\ upstream # <<>>
    /\ worker_index(Head(upstream), N) \in finished
    /\ upstream' = Tail(upstream)
    /\ lb' = "failed"
    /\ senders' = {}
    /\ UNCHANGED <<panicked, N, client_tx, queue, join_idx, finished, results,
                   returned, sent, applied>>
    /\ UNCHANGED <<worker_vars, dispute_state, solo>>

\* join_handle.await? yields a JoinError: load_balancer returns the error, its
\* locals (results, the pairs the iterator still holds) are dropped.
LbJoinError ==
    /\ lb = "awaiting"
    /\ join_idx \in finished
    /\ ~IsSome(await(panicked, worker, join_idx))
    /\ lb' = "failed"
    /\ results' = <<>>
    /\ senders' = {}
    /\ UNCHANGED <<panicked, N, client_tx, upstream, queue, join_idx, finished,
                   returned, sent, applied>>
    /\ UNCHANGED <<worker_vars, dispute_state, solo>>

\* get_results: the await of the load balancer's join handle completes with
\* the error load_balancer returned.
GetResultsError ==
    /\ lb = "failed"
    /\ ~returned
    /\ returned' = TRUE
    /\ UNCHANGED <<panicked, N, client_tx, upstream, lb, senders, queue, join_idx,
                   finished, results, sent, applied>>
    /\ UNCHANGED <<worker_vars, dispute_state, solo>>

\* ------------------------------------------------------------- pipeline

Worker(w) == w \in Workers /\ (WorkerRecv(w) \/ WorkerExit(w))

Next ==
    \/ \E t \in StreamEntries : FeederSend(t)
    \/ FeederDrop
    \/ LoadBalancer
    \/ \E w \in 0..(MaxWorkers - 1) : Worker(w)
    \/ GetResults

Spec == Init /\ [][Next]_vars

\* The pipeline with worker tasks that may end abnormally at any time.
FaultNext ==
    \/ Next
    \/ \E w \in 0..(MaxWorkers - 1) : WorkerPanic(w)
    \/ LbSendError
    \/ LbJoinError
    \/ GetResultsError

FaultSpec == Init /\ [][FaultNext]_vars

\* Every task the runtime holds is polled again while it can make progress.
FairSpec ==
    /\ Spec
    /\ WF_vars(LoadBalancer)
    /\ \A w \in 0..(MaxWorkers - 1) : WF_vars(Worker(w))
    /\ WF_vars(GetResults)

\* ------------------------------------------------------------ properties

Accounts(w) == worker[w].clients
History(w) == worker[w].transactions
Total(c) == c.available + c.held

\* C1: in every reachable state every account has available >= 0 and
\* held >= 0, whatever entries, accepted or rejected, were processed.
BalancesNonNegative ==
    \A w \in Workers : \A c \in DOMAIN Accounts(w) :
        Accounts(w)[c].available >= 0 /\ Accounts(w)[c].held >= 0

\* C1 witness: an account whose whole balance is held after a dispute and that
\* since had entries rejected at zero available.
BalancesAtZeroWitness ==
    \E w \in Workers : \E c \in DOMAIN Accounts(w) :
        /\ Accounts(w)[c].available = 0
        /\ Accounts(w)[c].held > 0
        /\ credited[c] = Accounts(w)[c].held

\* C2, the step part: a step leaves a locked account as it is and records no
\* entry of that client in the history.
LockedAccountFrozen(w, c) ==
    Accounts(w)[c].locked =>
        /\ worker'[w].clients[c] = Accounts(w)[c]
        /\ \A tx \in DOMAIN worker'[w].transactions :
              worker'[w].transactions[tx].client = c =>
                  /\ tx \in DOMAIN History(w)
                  /\ History(w)[tx] = worker'[w].transactions[tx]

\* C2, the other clients: next to a locked account, the worker still applies a
\* deposit to an unlocked account of another client.
OthersStillProcessed ==
    \A w \in Workers : \A c, d \in DOMAIN Accounts(w) :
        (c # d /\ Accounts(w)[c].locked /\ ~Accounts(w)[d].locked
            /\ Accounts(w)[d].available < DecimalMax)
        => LET t == Transaction("deposit", d, MaxTx, Some(1))
               r == Process(Accounts(w), History(w), t)
           IN  /\ r.clients[d].available = Accounts(w)[d].available + 1
               /\ r.transactions[MaxTx] = t

\* C2: once an account is locked no later entry changes its available, held
\* or locked, no later deposit or withdrawal of the client enters the
\* history, and entries of the worker's other clients are still processed.
LockedIsFinal ==
    /\ [][\A w \in Workers : \A c \in DOMAIN Accounts(w) : LockedAccountFrozen(w, c)]_vars
    /\ []OthersStillProcessed

\* C2 witness: an entry arrived for a locked account and was dropped, while
\* another client of the same worker holds funds and is not locked.
LockedDroppedWitness ==
    \E w \in Workers : \E c, d \in DOMAIN Accounts(w) :
        /\ c # d
        /\ Accounts(w)[c].locked /\ c \in dropped
        /\ ~Accounts(w)[d].locked /\ Accounts(w)[d].available > 0

\* C3: a step locks an account only together with a successful forfeit: some
\* recorded transaction of the client has an amount that held covered and
\* that the step removed from held.
ChargebackLocksOnlyAfterForfeit ==
    [][\A w \in Workers : \A c \in DOMAIN worker'[w].clients :
          (  worker'[w].clients[c].locked
          /\ ~or_insert_with(Accounts(w), c)[c].locked)
          => \E tx \in DOMAIN History(w) :
                /\ History(w)[tx].client = c
                /\ Unwrap(History(w)[tx].amount) <= Accounts(w)[c].held
                /\ worker'[w].clients[c].held =
                      Accounts(w)[c].held - Unwrap(History(w)[tx].amount)]_vars

\* C4: available + held of every account equals the client's accepted
\* deposits minus its accepted withdrawals minus the amounts its chargebacks
\* forfeited, and so never exceeds deposits minus withdrawals.
Conservation ==
    \A w \in Workers : \A c \in DOMAIN Accounts(w) :
        /\ Total(Accounts(w)[c]) = credited[c] - forfeited[c]
        /\ Total(Accounts(w)[c]) <= credited[c]
        /\ forfeited[c] >= 0

\* C4 witness: a chargeback forfeited funds of an account that keeps a
\* positive total.
ConservationWitness ==
    \E w \in Workers : \E c \in DOMAIN Accounts(w) :
        forfeited[c] > 0 /\ Total(Accounts(w)[c]) > 0

\* C6: an entry recorded under a tx id is never replaced or altered by a
\* later step.
HistoryInsertedOnce ==
    [][\A w \in Workers : \A tx \in DOMAIN History(w) :
          worker'[w].transactions[tx] = History(w)[tx]]_vars

\* The entries of a sequence that belong to client c.
OfClient(seq, c) ==
    LET mine(t) == t.client = c
    IN  SelectSeq(seq, mine)

\* The entries of a sequence whose client id is w modulo N.
OfPartition(seq, w) ==
    LET here(t) == t.client % N = w
    IN  SelectSeq(seq, here)

\* The entries the load balancer has received from upstream so far.
Routed == SubSeq(sent, 1, Len(sent) - Len(upstream))

\* C5: applying a Resolve to a recorded transaction of the client whose
\* dispute was already resolved leaves the worker's accounts unchanged.
ResolveIdempotent ==
    \A w \in Workers : \A t \in OneClientEntries :
        (  t.ttype = "resolve"
        /\ t.tx \in DOMAIN dispute_state[w]
        /\ dispute_state[w][t.tx] = "resolved"
        /\ History(w)[t.tx].client = t.client)
        => Process(Accounts(w), History(w), t).clients = Accounts(w)

\* C7: when get_results has returned, every account of the result is the one
\* a worker computes from that client's entries alone, so entries of other
\* clients of the same worker made no difference.
NonInterference ==
    returned => \A c \in DOMAIN results : results[c] = solo[c].clients[c]

\* C8: every entry received from upstream sits, unchanged, in the channel or
\* the processed entries of the worker with index client id mod N and nowhere
\* else, and every account lives in the map of that worker only.
RoutedByClientId ==
    /\ \A w \in Workers : applied[w] \o queue[w] = OfPartition(Routed, w)
    /\ \A w \in Workers : \A c \in DOMAIN Accounts(w) : c % N = w
    /\ \A w, v \in Workers : w # v => DOMAIN Accounts(w) \cap DOMAIN Accounts(v) = {}

\* C8 witness: in a pool of two, each worker has processed an entry and the
\* accounts of two clients live in different workers.
RoutedWitness ==
    /\ N = 2
    /\ \A w \in Workers : applied[w] # <<>> /\ DOMAIN Accounts(w) # {}

\* C9: for every client, the entries processed by its worker, then those in
\* the worker's channel, then those still upstream are the entries sent for
\* it, in the order sent: none lost, duplicated or reordered.
PerClientOrder ==
    \A c \in ClientIds :
        OfClient(applied[c % N], c) \o OfClient(queue[c % N], c) \o OfClient(upstream, c)
            = OfClient(sent, c)

\* C9 witness: a worker has processed two different entries of one client in
\* the order sent, with an entry of another client sent in between.
PerClientOrderWitness ==
    \E c \in ClientIds :
        /\ Len(sent) = 3
        /\ sent[1].client = c /\ sent[2].client # c /\ sent[3].client = c
        /\ sent[1] # sent[3]
        /\ OfClient(applied[c % N], c) = <<sent[1], sent[3]>>

\* C10, safety: the load balancer never awaits a worker whose sender it still
\* holds, and get_results does not return while the upstream sender is alive.
NoAwaitOnOpenChannel == lb = "awaiting" => join_idx \notin senders
NoResultsWhileSending == client_tx => ~returned

\* Every channel closed, every worker drained and returned, get_results
\* returned.
ShutDown ==
    /\ senders = {}
    /\ \A w \in Workers : queue[w] = <<>>
    /\ finished = Workers
    /\ returned

\* C10: once the upstream sender is dropped, the load balancer eventually
\* closes every worker channel, every worker drains its channel and returns
\* and get_results returns; the load balancer never awaits a worker whose
\* channel is open; get_results never returns while the sender is alive.
Termination ==
    /\ (~client_tx) ~> ShutDown
    /\ []NoAwaitOnOpenChannel
    /\ []NoResultsWhileSending

\* C10 witness: a pool of two has shut down after both workers processed
\* entries.
TerminationWitness ==
    /\ ShutDown
    /\ N = 2
    /\ \A w \in Workers : applied[w] # <<>>

\* What get_results handed to the caller: the results map once it returned
\* Ok, nothing before that and nothing when it returned the error.
Returned == IF returned /\ lb = "done" THEN Some(results) ELSE None

\* C11: once forwarding to a worker failed or the await of a worker failed,
\* the load balancer holds no results and get_results hands no account map to
\* the caller; a map is handed over only when every worker completed normally.
AllOrNothing ==
    /\ lb = "failed" => results = <<>> /\ ~IsSome(Returned)
    /\ IsSome(Returned) => panicked = {} /\ finished = Workers

\* C11 witness: get_results returned the error in a pool of two after the
\* first worker completed normally with an account and the second failed.
AllOrNothingWitness ==
    /\ returned /\ lb = "failed"
    /\ N = 2 /\ join_idx = 1
    /\ panicked = {1}
    /\ DOMAIN Accounts(0) # {}

\* The withdrawals of client 0, with every amount and none.
Withdrawals == {t \in OneClientEntries : t.ttype = "withdrawal"}

\* C12: a withdrawal applied to an unlocked account succeeds exactly when its
\* amount w is present, w >= 0 and w <= available; on success available
\* decreases by w with held and locked unchanged; otherwise the account and
\* the history are unchanged, and the entry after it is processed as usual.
WithdrawalExact ==
    \A w \in Workers : \A t \in Withdrawals :
        LET before == or_insert_with(Accounts(w), t.client)[t.client]
            r == Process(Accounts(w), History(w), t)
            after == r.clients[t.client]
            next == Transaction("deposit", t.client, MaxTx, Some(0))
        IN  ~before.locked =>
              /\ r.ok <=> (IsSome(t.amount) /\ Unwrap(t.amount) >= 0
                              /\ Unwrap(t.amount) <= before.available)
              /\ r.ok => /\ after.available = before.available - Unwrap(t.amount)
                         /\ after.held = before.held
                         /\ after.locked = before.locked
              /\ ~r.ok => /\ after = before
                          /\ r.transactions = History(w)
                          /\ Process(r.clients, r.transactions, next).ok

\* C12 witness: an unlocked account with funds held whose history records a
\* withdrawal of a positive amount and whose available is down to zero, so
\* that a further withdrawal of that amount lacks the funds.
WithdrawalWitness ==
    \E w \in Workers : \E c \in DOMAIN Accounts(w) : \E tx \in DOMAIN History(w) :
        /\ ~Accounts(w)[c].locked
        /\ Accounts(w)[c].available = 0 /\ Accounts(w)[c].held > 0
        /\ History(w)[tx].ttype = "withdrawal"
        /\ Unwrap(History(w)[tx].amount) > 0

\* The deposits and withdrawals of client 0, and its entries of the kinds
\* that refer to a recorded transaction.
Movements == {t \in OneClientEntries : t.ttype \in {"deposit", "withdrawal"}}
References ==
    {t \in OneClientEntries : get_type(t) \in {Some("dispute"), Some("resolve"), Some("chargeback")}}

\* The reasons for which the worker rejects a deposit or withdrawal t of an
\* account in state c.
Rejected(c, t) ==
    \/ c.locked
    \/ ~IsSome(t.amount)
    \/ Unwrap(t.amount) < 0
    \/ t.ttype = "deposit" /\ c.available + Unwrap(t.amount) > DecimalMax
    \/ t.ttype = "withdrawal" /\ Unwrap(t.amount) > c.available

\* C13: the history holds accepted deposits and withdrawals only.  A deposit
\* or withdrawal is recorded exactly when it is not rejected; a rejected one
\* leaves the history and the account as they were, and when no entry is
\* recorded under its tx id, a Dispute, Resolve or Chargeback naming that tx
\* id right after it changes nothing.
OnlyAcceptedRecorded ==
    \A w \in Workers :
        /\ \A tx \in DOMAIN History(w) :
              /\ History(w)[tx].ttype \in {"deposit", "withdrawal"}
              /\ IsSome(History(w)[tx].amount)
              /\ Unwrap(History(w)[tx].amount) >= 0
        /\ \A t \in Movements :
              LET before == or_insert_with(Accounts(w), t.client)
                  r == Process(Accounts(w), History(w), t)
              IN  /\ r.ok <=> ~Rejected(before[t.client], t)
                  /\ r.ok => r.transactions = insert(History(w), t.tx, t)
                  /\ ~r.ok =>
                        /\ r.transactions = History(w)
                        /\ r.clients = before
                        /\ t.tx \notin DOMAIN History(w) =>
                              \A d \in References :
                                  d.tx = t.tx =>
                                      LET q == Process(r.clients, r.transactions, d)
                                      IN  /\ ~q.ok
                                          /\ q.clients = before
                                          /\ q.transactions = History(w)

\* C13 witness: an unlocked account whose available is at the largest value,
\* so that a further deposit overflows, with a tx id under which nothing is
\* recorded.
OnlyAcceptedRecordedWitness ==
    \E w \in Workers : \E c \in DOMAIN Accounts(w) : \E tx \in TxIds :
        /\ ~Accounts(w)[c].locked
        /\ Accounts(w)[c].available = DecimalMax
        /\ tx \notin DOMAIN History(w)

\* C14: on an unlocked account, a Dispute of a recorded transaction of the
\* client that succeeds keeps the total, and the Resolve of the same tx id
\* right after it succeeds, keeps the total and gives back the available and
\* held from before the Dispute, with locked still false.
DisputeResolveRoundTrip ==
    \A w \in Workers : \A t \in References :
        LET before == or_insert_with(Accounts(w), t.client)[t.client]
            d == Process(Accounts(w), History(w), t)
            between == d.clients[t.client]
            r == Process(d.clients, d.transactions,
                         Transaction("resolve", t.client, t.tx, None))
            after == r.clients[t.client]
        IN  (get_type(t) = Some("dispute") /\ ~before.locked /\ d.ok) =>
              /\ Total(between) = Total(before)
              /\ ~between.locked
              /\ r.ok
              /\ Total(after) = Total(between)
              /\ after.available = before.available
              /\ after.held = before.held
              /\ ~after.locked

\* C14 witness: an unlocked account that holds funds of an earlier dispute
\* and on which the Dispute of a recorded transaction with a positive
\* amount succeeds and moves that amount.
DisputeResolveWitness ==
    \E w \in Workers : \E c \in DOMAIN Accounts(w) : \E tx \in DOMAIN History(w) :
        LET d == Process(Accounts(w), History(w), Transaction("dispute", c, tx, None))
        IN  /\ History(w)[tx].client = c
            /\ Unwrap(History(w)[tx].amount) > 0
            /\ ~Accounts(w)[c].locked
            /\ Accounts(w)[c].held > 0
            /\ d.ok
            /\ d.clients[c].held = Accounts(w)[c].held + Unwrap(History(w)[tx].amount)

\* The client ids that appear in the entries of a sequence.
ClientsOf(seq) == {seq[i].client : i \in DOMAIN seq}

\* C15: a worker's accounts are those of the clients of the entries it
\* processed; the first entry of a client creates its account, which is the
\* zero, unlocked account unless the entry is an accepted deposit; and when
\* get_results has returned, the result holds an account for exactly the
\* clients of the entries sent.
AccountPerClientSeen ==
    /\ \A w \in Workers : DOMAIN Accounts(w) = ClientsOf(applied[w])
    /\ \A w \in Workers : \A t \in Entries :
          t.client \notin DOMAIN Accounts(w) =>
              LET r == Process(Accounts(w), History(w), t)
              IN  /\ DOMAIN r.clients = DOMAIN Accounts(w) \cup {t.client}
                  /\ ~r.ok => r.clients[t.client] = ClientNew(t.client)
                  /\ r.ok => r.clients[t.client] =
                                [ClientNew(t.client) EXCEPT !.available = Unwrap(t.amount)]
    /\ returned => DOMAIN results = ClientsOf(sent)

\* C15 witness: get_results returned the accounts of two clients, one of them
\* the zero, unlocked account of a client whose entries were all ignored.
AccountPerClientWitness ==
    /\ returned
    /\ DOMAIN results = ClientIds
    /\ \E c \in ClientIds :
          /\ results[c] = ClientNew(c)
          /\ \E i \in DOMAIN sent : sent[i].client = c

\* C16: while the load balancer awaits the completion of worker join_idx it
\* holds the sender of no later worker, so that every worker channel is
\* closed before the first await.
SendersDroppedBeforeAwait ==
    lb = "awaiting" => \A j \in senders : j <= join_idx

\* The workers whose map the load balancer has merged so far.
Joined == 0..(join_idx - 1)

\* C17, the state part: the maps of different workers share no client id, and
\* the results are the union of the maps of the workers merged so far, each
\* account as its owning worker computed it; once get_results has returned,
\* that is the union of all the workers' final maps.
ResultsAreUnion ==
    /\ \A w, v \in Workers : w # v => DOMAIN Accounts(w) \cap DOMAIN Accounts(v) = {}
    /\ DOMAIN results = UNION {DOMAIN Accounts(w) : w \in Joined}
    /\ \A w \in Joined : \A c \in DOMAIN Accounts(w) : results[c] = Accounts(w)[c]
    /\ returned => Joined = Workers /\ finished = Workers

\* C17, the step part: the merge never overwrites or removes an account that
\* is already in the results.
NoAccountOverwritten ==
    \A c \in DOMAIN results : c \in DOMAIN results' /\ results'[c] = results[c]

\* C17: the merged result is exactly the union of the workers' final maps,
\* whose key sets are pairwise disjoint; no account is overwritten during the
\* merge and every account of the result carries the state computed by the
\* one worker that owns it.
MergeIsUnion == []ResultsAreUnion /\ [][NoAccountOverwritten]_vars

\* C17 witness: get_results returned the merge of two workers' maps, each
\* holding the account of a client with funds.
MergeIsUnionWitness ==
    /\ returned
    /\ N = 2
    /\ \A w \in Workers :
          \E c \in DOMAIN Accounts(w) : Accounts(w)[c].available > 0 /\ c \in DOMAIN results

\* The results of the five fund-movement operations of Client called on the
\* account c with the amount a.
Operations(c, a) ==
    {add_available(c, a), subtract_available(c, a), transfer_available_to_held(c, a),
     transfer_held_to_available(c, a), subtract_held(c, a)}

\* C18: for every reachable account and every amount, an operation among
\* add_available, subtract_available, transfer_available_to_held,
\* transfer_held_to_available and subtract_held that returns a failure leaves
\* available, held and locked as they were before the call.
FailedOperationChangesNothing ==
    \A w \in Workers : \A c \in DOMAIN Accounts(w) : \A a \in Amounts :
        \A r \in Operations(Accounts(w)[c], a) :
            ~r.ok => /\ r.client.available = Accounts(w)[c].available
                     /\ r.client.held = Accounts(w)[c].held
                     /\ r.client.locked = Accounts(w)[c].locked

\* C18 witness: an unlocked account with funds and a recorded transaction of
\* a positive amount whose release fails on held after the new available was
\* computed.
FailedOperationWitness ==
    \E w \in Workers : \E c \in DOMAIN Accounts(w) : \E tx \in DOMAIN History(w) :
        LET acc == Accounts(w)[c]
            a == Unwrap(History(w)[tx].amount)
        IN  /\ a > 0
            /\ ~acc.locked /\ acc.available > 0
            /\ IsSome(checked_add(acc.available, a))
            /\ ~transfer_held_to_available(acc, a).ok

\* The entries of every client of the kinds that refer to a recorded
\* transaction.
AllReferences ==
    {t \in Entries : get_type(t) \in {Some("dispute"), Some("resolve"), Some("chargeback")}}

\* C19: a Dispute, Resolve or Chargeback whose tx id is not in the worker's
\* history, or is recorded for another client, leaves the account of its
\* client (the zero account when it is the client's first entry) with the
\* same available, held and locked, and the history as it was.
UnknownReferenceIgnored ==
    \A w \in Workers : \A t \in AllReferences :
        LET before == or_insert_with(Accounts(w), t.client)
            r == Process(Accounts(w), History(w), t)
        IN  (  t.tx \notin DOMAIN History(w)
            \/ History(w)[t.tx].client # t.client)
            => /\ r.clients[t.client].available = before[t.client].available
               /\ r.clients[t.client].held = before[t.client].held
               /\ r.clients[t.client].locked = before[t.client].locked
               /\ r.clients = before
               /\ r.transactions = History(w)

\* C19 witness: an unlocked account with funds available and funds held,
\* next to a tx id recorded for another client of the same worker and a tx id
\* that is not recorded.
UnknownReferenceWitness ==
    \E w \in Workers : \E c \in DOMAIN Accounts(w) :
        /\ ~Accounts(w)[c].locked
        /\ Accounts(w)[c].available > 0 /\ Accounts(w)[c].held > 0
        /\ \E tx \in DOMAIN History(w) :
              History(w)[tx].client # c /\ Unwrap(History(w)[tx].amount) > 0
        /\ \E tx \in TxIds : tx \notin DOMAIN History(w)

\* The tx ids recorded for client c at worker w that are under dispute:
\* disputed and neither resolved nor charged back.
UnderDispute(w, c) ==
    {tx \in DOMAIN dispute_state[w] :
        dispute_state[w][tx] = "disputed" /\ History(w)[tx].client = c}

\* The sum of the recorded amounts of a set of tx ids.
RECURSIVE SumAmounts(_, _)
SumAmounts(tr, txs) ==
    IF txs = {} THEN 0
    ELSE LET tx == CHOOSE x \in txs : TRUE
         IN  Unwrap(tr[tx].amount) + SumAmounts(tr, txs \ {tx})

\* C20: a Dispute naming a transaction of the client that is under dispute
\* leaves the accounts unchanged, and an account never holds more than the
\* amounts of its transactions under dispute, each counted once.
DisputedHeldOnce ==
    \A w \in Workers :
        /\ \A t \in References :
              (get_type(t) = Some("dispute") /\ t.tx \in UnderDispute(w, t.client))
              => Process(Accounts(w), History(w), t).clients = Accounts(w)
        /\ \A c \in DOMAIN Accounts(w) :
              Accounts(w)[c].held <= SumAmounts(History(w), UnderDispute(w, c))

\* The Resolve and Chargeback entries that name a recorded transaction of
\* their client that was not disputed since it was recorded, on an unlocked
\* account whose held is at least the amount of that transaction.
NeverDisputed(w, t) ==
    /\ get_type(t) \in {Some("resolve"), Some("chargeback")}
    /\ t.client \in DOMAIN Accounts(w)
    /\ ~Accounts(w)[t.client].locked
    /\ t.tx \in DOMAIN History(w)
    /\ History(w)[t.tx].client = t.client
    /\ dispute_state[w][t.tx] = "recorded"
    /\ Accounts(w)[t.client].held >= Unwrap(History(w)[t.tx].amount)

\* The account of t's client after the Resolve or Chargeback t was applied
\* to the account c: the amount a moved from held to available, or removed
\* from held with the account locked.
Applied(c, t, a) ==
    IF get_type(t) = Some("resolve")
    THEN [c EXCEPT !.available = @ + a, !.held = @ - a]
    ELSE [c EXCEPT !.held = @ - a, !.locked = TRUE]

\* C21 as stated: a Resolve or Chargeback naming a recorded transaction of the
\* client that was never disputed is applied whenever held is at least the
\* amount of that transaction.
UndisputedAppliedWheneverHeld ==
    \A w \in Workers : \A t \in References :
        NeverDisputed(w, t) =>
            LET r == Process(Accounts(w), History(w), t)
            IN  /\ r.ok
                /\ r.clients[t.client] =
                      Applied(Accounts(w)[t.client], t, Unwrap(History(w)[t.tx].amount))

\* C21: a Chargeback naming a recorded transaction of the client that was
\* never disputed is applied whenever held is at least the amount of that
\* transaction, and so is a Resolve unless available plus that amount
\* overflows, in which case the Resolve changes nothing.
UndisputedApplied ==
    \A w \in Workers : \A t \in References :
        NeverDisputed(w, t) =>
            LET r == Process(Accounts(w), History(w), t)
                c == Accounts(w)[t.client]
                a == Unwrap(History(w)[t.tx].amount)
            IN  IF get_type(t) = Some("resolve") /\ ~IsSome(checked_add(c.available, a))
                THEN ~r.ok /\ r.clients = Accounts(w)
                ELSE r.ok /\ r.clients[t.client] = Applied(c, t, a)

\* C21 witness: a transaction of a positive amount is under dispute, another
\* recorded transaction of the client was never disputed, held covers its
\* amount and its Resolve does not overflow available.
UndisputedAppliedWitness ==
    \E w \in Workers : \E c \in DOMAIN Accounts(w) : \E tx, other \in DOMAIN History(w) :
        /\ tx # other
        /\ NeverDisputed(w, Transaction("resolve", c, tx, None))
        /\ Unwrap(History(w)[tx].amount) > 0
        /\ dispute_state[w][other] = "disputed"
        /\ IsSome(checked_add(Accounts(w)[c].available, Unwrap(History(w)[tx].amount)))

\* The state of a single worker that received the entries of seq in order:
\* what a pool of one computes.
RECURSIVE SingleWorker(_)
SingleWorker(seq) ==
    IF seq = <<>> THEN WorkerNew
    ELSE LET s == SingleWorker(SubSeq(seq, 1, Len(seq) - 1))
             r == Process(s.clients, s.transactions, seq[Len(seq)])
         IN  [clients |-> r.clients, transactions |-> r.transactions]

\* C22: when get_results has returned, the merged result is the one a pool
\* of one worker computes from the entries sent, whatever the pool size and
\* the interleaving of the load balancer and the workers were.
ResultIndependentOfPool ==
    returned => results = SingleWorker(sent).clients

====
